---- MODULE Spec2Model ----
(***************************************************************************)
(* State-machine model of scraper/scrap_zbeng.py: the crawl loop of main() *)
(* with its dedup store and persistence, the photo resolver download_photo *)
(* over a file system, and the detail extractor                            *)
(* fetch_and_parse_user_details.                                           *)
(*                                                                         *)
(* Six specifications share the variables:                                 *)
(*   Spec       runs of main() (start, page loop, per-record steps, final  *)
(*              save), external kills and reruns                           *)
(*   SpecFair   Spec with weak fairness on the steps of a running process  *)
(*   SpecPhoto  repeated calls of download_photo on one photo directory    *)
(*   SpecDetail calls of fetch_and_parse_user_details on detail responses  *)
(*   SpecConvert calls of convert_to_user_model on raw records             *)
(*   SpecParse  calls of the two descriptor parsers on texts               *)
(***************************************************************************)
EXTENDS Integers, Sequences, FiniteSets, TLC

\* ------------------------------------------------------------------ bounds
\* Record identifiers that the listing site can show are 1..MaxId.
MaxId == 3
\* The site has 1..MaxPages listing pages of at most MaxPerPage record cards.
MaxPages == 2
MaxPerPage == 2
\* Number of times main() is started (the first run and reruns).
MaxRuns == 2
\* The page-request log kept for the page loop is cut at this length.
MaxLog == 3
\* Stand-in for the period of the incremental save (25 in the source, line
\* 1081); the model keeps the modulus test and scales the period down so
\* that a run over MaxId records crosses it.
SaveEvery == 2
\* Byte size of a real (non-placeholder, non-empty) image.
RealSize == 50000
\* Number of download_photo calls SpecPhoto makes on the photo directory.
MaxCalls == 2

\* Tags of the tag-list fields are 1..MaxTags; SpecConvert hands over lists
\* of up to MaxTags of them.
MaxTags == 8
\* Number of photo files SpecConvert places in a raw record and on disk.
MaxFiles == 3

\* Python's None where a string is expected, and where a path or URL record is.
None == "None"
NoneRec == [none |-> TRUE]

\* The elements of a list.
SeqRange(q) == {q[i] : i \in DOMAIN q}

\* ------------------------------------------------------------ photo resolver
\* Configured placeholder sizes (the same list at both places of the source).
placeholder_sizes_bytes == {24381, 15905, 16971}

\* str.lower() on the matched extension.
Lower(e) == IF e = ".JPG" THEN ".jpg" ELSE e

\* Lines 599-600: the extension guessed from the URL, ".jpg" when none matches.
Extension(photo_url) ==
    IF photo_url.ext \in {".jpg", ".JPG", ".jpeg", ".png", ".gif", ".webp"}
    THEN Lower(photo_url.ext) ELSE ".jpg"

\* Content types a photo response declares; "" is a missing header.
ContentTypes == {"", "image/jpeg", "image/png", "image/gif", "image/webp"}

\* Lines 625-634: the extension reconciled against the declared content type.
NewExt(content_type, extension) ==
    IF content_type = "image/jpeg" THEN ".jpg"
    ELSE IF content_type = "image/png" THEN ".png"
    ELSE IF content_type = "image/gif" THEN ".gif"
    ELSE IF content_type = "image/webp" THEN ".webp"
    ELSE extension

\* Lines 586-592: file-name prefix from the gender argument.
Prefix(gender) ==
    IF gender = "female" THEN "woman"
    ELSE IF gender = "male" THEN "man"
    ELSE IF gender = "couple" THEN "couple"
    ELSE "user"

\* Lines 581-582, 597: prefix_userid_label and the _n<number> suffix.
PhotoFilenameBase(photo_url, user_id, photo_label, gender) ==
    [prefix |-> Prefix(gender), uid |-> user_id, label |-> photo_label,
     num |-> photo_url.number]

\* The photo_label arguments of main(): "listing_main" and f"popup_{i}".
ListingLabel == <<"listing_main", 0>>
PopupLabel(i) == <<"popup", i>>

\* Lines 601-603: a path in the photo directory.
FilePath(base, ext) == [base |-> base, ext |-> ext]

\* The photo directory is a function from the paths that exist to byte sizes.
EmptyFs == [p \in {} |-> 0]
Exists(fs, p) == p \in DOMAIN fs
GetSize(fs, p) == fs[p]
Remove(fs, p) == [q \in (DOMAIN fs) \ {p} |-> fs[q]]
WriteFile(fs, p, size) == [q \in (DOMAIN fs) \cup {p} |-> IF q = p THEN size ELSE fs[q]]

\* os.remove inside try/except OSError (lines 613-616, 652-655, 660-663):
\* the file is gone when the removal works and stays when it raises.
TryRemove(fs, p, removeOk) == IF removeOk THEN Remove(fs, p) ELSE fs

\* What the network and the disk do during one call: ok = FALSE is a
\* RequestException of session.get / raise_for_status, writeOk = FALSE an
\* IOError of open(), removeOk = FALSE an OSError of os.remove.  ctype and
\* size are the declared content type and the byte count of the body.
FetchFailed == [ok |-> FALSE, writeOk |-> TRUE, ctype |-> "", size |-> 0, removeOk |-> TRUE]
WriteFailed == [ok |-> TRUE, writeOk |-> FALSE, ctype |-> "", size |-> 0, removeOk |-> TRUE]
Served(ctypes, sizes, removes) ==
    [ok : {TRUE}, writeOk : {TRUE}, ctype : ctypes, size : sizes, removeOk : removes]

\* The result of a call: the directory afterwards, the returned path
\* (NoneRec for None), whether session.get ran, and the path the body was
\* written to (NoneRec when nothing was written).
Ret(fs, ret, fetched, wrote) ==
    [fs |-> fs, ret |-> ret, fetched |-> fetched, wrote |-> wrote]

\* Variant of ExistingFile that trusts any existing non-empty file.
ExistingFileAny(fs, file_path, net) == Ret(fs, file_path, FALSE, NoneRec)

\* Lines 605-619: the check of an existing non-empty file at the computed path.
ExistingFile(fs, file_path, net) ==
    IF GetSize(fs, file_path) \in placeholder_sizes_bytes
    THEN Ret(TryRemove(fs, file_path, net.removeOk), NoneRec, FALSE, NoneRec)
    ELSE Ret(fs, file_path, FALSE, NoneRec)

\* Variant of PostFetch without the placeholder-size test.
PostFetchKeepPlaceholder(fs, file_path, net) ==
    IF GetSize(fs, file_path) = 0
    THEN Ret(TryRemove(fs, file_path, net.removeOk), NoneRec, TRUE, file_path)
    ELSE Ret(fs, file_path, TRUE, file_path)

\* Lines 645-667: validation of the file just written.
PostFetch(fs, file_path, net) ==
    IF GetSize(fs, file_path) \in placeholder_sizes_bytes
    THEN Ret(TryRemove(fs, file_path, net.removeOk), NoneRec, TRUE, file_path)
    ELSE IF GetSize(fs, file_path) = 0
    THEN Ret(TryRemove(fs, file_path, net.removeOk), NoneRec, TRUE, file_path)
    ELSE Ret(fs, file_path, TRUE, file_path)

\* Lines 621-643: the fetch, the extension reconciliation and the write.
FetchAndWrite(fs, base, extension, net) ==
    IF ~net.ok THEN Ret(fs, NoneRec, TRUE, NoneRec)
    ELSE LET new_ext == NewExt(net.ctype, extension)
             file_path == FilePath(base, new_ext)
         IN IF ~net.writeOk THEN Ret(fs, NoneRec, TRUE, NoneRec)
            ELSE PostFetch(WriteFile(fs, file_path, net.size), file_path, net)

\* download_photo(photo_url, user_id, photos_dir, photo_label, gender), lines
\* 574-674.  photo_url is NoneRec or [transparent, number, ext]; the result
\* is the new directory, the returned path or NoneRec, and whether
\* session.get ran.
download_photo(fs, photo_url, user_id, photo_label, gender, net) ==
    IF photo_url = NoneRec THEN Ret(fs, NoneRec, FALSE, NoneRec)
    ELSE IF photo_url.transparent THEN Ret(fs, NoneRec, FALSE, NoneRec)
    ELSE LET base == PhotoFilenameBase(photo_url, user_id, photo_label, gender)
             extension == Extension(photo_url)
             file_path == FilePath(base, extension)
         IN IF Exists(fs, file_path) /\ GetSize(fs, file_path) > 0
            THEN ExistingFile(fs, file_path, net)
            ELSE FetchAndWrite(fs, base, extension, net)

\* ----------------------------------------------------------- detail extractor
\* The text of a detail response.  "empty" is the empty string; "object" a
\* JSON object, typed = FALSE when one of the fields the mapping calls string
\* methods on (me, aboutMe, iamTag, iamLookingForTag, makesMeItTag) holds a
\* non-string; "non_object" any other JSON value (number, string, array, null,
\* boolean); "not_json" text that json.loads rejects, with the photo
\* references its markup shows.
JsonObject(typed, genderId, imgs) ==
    [kind |-> "object", typed |-> typed, genderId |-> genderId, imgs |-> imgs]
JsonOther(what) == [kind |-> "non_object", what |-> what]
NotJson(photos) == [kind |-> "not_json", photos |-> photos]
EmptyText == [kind |-> "empty"]
JsonOtherKinds == {"number", "string", "array", "null", "boolean"}

RECURSIVE SortedSeq(_)
\* sorted(list(set)) for a set of numbers.
SortedSeq(S) ==
    IF S = {} THEN <<>>
    ELSE LET m == CHOOSE x \in S : \A y \in S : x <= y
         IN <<m>> \o SortedSeq(S \ {m})

\* A photo URL of the site: picture.ashx?customerId=<customerId>&number=<n>.
ProfilePhotoUrl(customerId, number) ==
    [transparent |-> FALSE, number |-> number, ext |-> "", customerId |-> customerId]

\* A photo reference of the HTML form: its number and its customerId
\* parameter, 0 when it has none.
HtmlRef(number, customerId) == [number |-> number, customerId |-> customerId]

RECURSIVE DecimalPrefix(_, _)
\* str(a) is a leading substring of str(b), for a, b > 0.
DecimalPrefix(a, b) == a = b \/ (b >= 10 /\ DecimalPrefix(a, b \div 10))

\* Line 497: f"customerId={user_id}" in p_url, a substring test.
HasOwnerId(p_url, user_id) ==
    p_url.customerId # 0 /\ DecimalPrefix(user_id, p_url.customerId)

\* Lines 497-503: a reference without the owner's customerId gets it, by
\* replacement or by appending.
NormalizedRef(p_url, user_id) ==
    IF HasOwnerId(p_url, user_id) THEN p_url
    ELSE [p_url EXCEPT !.customerId = user_id]

\* The order of the URL strings, character by character ("&" sorts before
\* every digit), for customerId below 100 and numbers below 10.
UrlKey(p_url) ==
    IF p_url.customerId < 10 THEN 1000 * p_url.customerId + p_url.number
    ELSE 1000 * (p_url.customerId \div 10)
         + 10 * ((p_url.customerId % 10) + 1) + p_url.number

RECURSIVE SortedRefs(_)
\* Line 506: sorted(list(final_popup_photos)).
SortedRefs(S) ==
    IF S = {} THEN <<>>
    ELSE LET m == CHOOSE x \in S : \A y \in S : UrlKey(x) <= UrlKey(y)
         IN <<m>> \o SortedRefs(S \ {m})

\* Lines 493-506: the normalised references, once each and sorted.
final_popup_photos(popup_photo_urls, user_id) ==
    SortedRefs({NormalizedRef(p_url, user_id) : p_url \in popup_photo_urls})

\* Lines 345-354: genderId to gender_popup_en; other codes leave it unset.
GenderFromId(gender_id) ==
    IF gender_id = 1 THEN "male"
    ELSE IF gender_id = 2 THEN "female"
    ELSE IF gender_id = 3 THEN "couple"
    ELSE None

\* Results of fetch_and_parse_user_details: a detail structure, an error
\* marker, or an exception that leaves the function.
Details(gender_en, urls) ==
    [tag |-> "details", error |-> None, gender_popup_en |-> gender_en,
     photo_urls_popup |-> urls]
ErrorMarker(note) ==
    [tag |-> "error", error |-> note, gender_popup_en |-> None,
     photo_urls_popup |-> <<>>]
Raised(what) ==
    [tag |-> "raise", error |-> what, gender_popup_en |-> None,
     photo_urls_popup |-> <<>>]

\* Variant of parse_user_details_from_json that answers a non-object with an
\* error marker.
parse_user_details_from_json_guarded(popup_json, user_id) ==
    IF popup_json.kind = "non_object" THEN ErrorMarker("not an object")
    ELSE IF ~popup_json.typed THEN ErrorMarker("bad field")
    ELSE Details(GenderFromId(popup_json.genderId),
                 <<ProfilePhotoUrl(user_id, 1)>>
                 \o [i \in 1..Len(SortedSeq(popup_json.imgs)) |->
                        ProfilePhotoUrl(user_id, SortedSeq(popup_json.imgs)[i])])

\* parse_user_details_from_json, lines 337-432.  popup_json.get raises
\* AttributeError on a value that is no object, and the string methods raise
\* on a non-string field; photo 1 is always listed, 2..4 by their flags.
parse_user_details_from_json(popup_json, user_id) ==
    IF popup_json.kind = "non_object" THEN Raised("AttributeError")
    ELSE IF ~popup_json.typed THEN Raised("AttributeError")
    ELSE Details(GenderFromId(popup_json.genderId),
                 <<ProfilePhotoUrl(user_id, 1)>>
                 \o [i \in 1..Len(SortedSeq(popup_json.imgs)) |->
                        ProfilePhotoUrl(user_id, SortedSeq(popup_json.imgs)[i])])

\* parse_user_details_from_popup_html, lines 435-507, as far as main() reads
\* its result: no lblMe span gives no gender; the photo references are
\* normalised, de-duplicated and sorted.
parse_user_details_from_popup_html(popup_html, user_id) ==
    LET photo_urls_popup == final_popup_photos(popup_html.photos, user_id)
    IN Details(None,
               [i \in DOMAIN photo_urls_popup |->
                   ProfilePhotoUrl(photo_urls_popup[i].customerId,
                                   photo_urls_popup[i].number)])

\* json.loads on the payload text: TRUE when it decodes.
JsonDecodes(text) == text.kind \in {"object", "non_object"}

\* fetch_and_parse_user_details(user_id), lines 510-571.  resp.ok = FALSE is a
\* RequestException of the POST; resp.text is the body.
fetch_and_parse_user_details(user_id, resp) ==
    IF ~resp.ok THEN ErrorMarker("Failed to fetch popup data")
    ELSE IF resp.text.kind = "empty" THEN ErrorMarker("Fetched popup content is empty")
    ELSE IF JsonDecodes(resp.text)
         THEN parse_user_details_from_json(resp.text, user_id)
         ELSE parse_user_details_from_popup_html(resp.text, user_id)

\* ------------------------------------------------------- descriptor parsers
\* A text is a sequence of one-character strings.  The letters of the site's
\* language are written with one Latin letter each: a aleph, b bet, g gimel,
\* h he, w vav, z zayin, H het, y yod, k kaf, l lamed, m mem, M final mem,
\* n nun, N final nun, s samekh, e ayin, p pe, q qof, r resh, S shin, t tav.
\* x and y-less words stand for place names.
Some(v) == [some |-> v]

Space == " "
Comma == ","
DigitChars == <<"0", "1", "2", "3", "4", "5", "6", "7", "8", "9">>
IsDigit(c) == \E i \in DOMAIN DigitChars : DigitChars[i] = c
DigitVal(c) == (CHOOSE i \in DOMAIN DigitChars : DigitChars[i] = c) - 1

\* q[n:].
Drop(q, n) == IF n >= Len(q) THEN <<>> ELSE SubSeq(q, n + 1, Len(q))

\* str.startswith.
StartsWith(q, prefix) ==
    Len(prefix) <= Len(q) /\ SubSeq(q, 1, Len(prefix)) = prefix

RECURSIVE LStrip(_)
LStrip(q) == IF q # <<>> /\ Head(q) = Space THEN LStrip(Tail(q)) ELSE q

RECURSIVE RStrip(_)
RStrip(q) ==
    IF q # <<>> /\ q[Len(q)] = Space THEN RStrip(SubSeq(q, 1, Len(q) - 1)) ELSE q

\* str.strip().
Strip(q) == RStrip(LStrip(q))

RECURSIVE Split(_, _)
\* str.split(sep) for a one-character separator: the list of parts.
Split(q, sep) ==
    IF \A i \in DOMAIN q : q[i] # sep THEN <<q>>
    ELSE LET k == CHOOSE i \in DOMAIN q :
                    q[i] = sep /\ \A j \in 1..(i - 1) : q[j] # sep
         IN <<SubSeq(q, 1, k - 1)>> \o Split(Drop(q, k), sep)

RECURSIVE ParseInt(_)
\* int() of a digit string.
ParseInt(digits) ==
    IF digits = <<>> THEN 0
    ELSE 10 * ParseInt(SubSeq(digits, 1, Len(digits) - 1))
            + DigitVal(digits[Len(digits)])

\* The gender words: bat (female), ben (male), zug (couple).
WordBat == <<"b", "t">>
WordBen == <<"b", "N">>
WordZug == <<"z", "w", "g">>

RECURSIVE SpanWhile(_, _, _)
\* The position after the longest run of characters of kind (TRUE: digits,
\* FALSE: white space) that starts at position i of q.
SpanWhile(q, i, digits) ==
    IF i <= Len(q) /\ (IF digits THEN IsDigit(q[i]) ELSE q[i] = Space)
    THEN SpanWhile(q, i + 1, digits) ELSE i

\* The regular expression (w1|w2|...)\s*(\d+) tried at position i of q, the
\* words given in the order of the alternation: the word, the digits and the
\* position after the match, or NoneRec.
MatchAt(q, i, words) ==
    LET fits == {k \in DOMAIN words : StartsWith(Drop(q, i - 1), words[k])}
    IN IF fits = {} THEN NoneRec
       ELSE LET k == CHOOSE k \in fits : \A j \in fits : k <= j
                afterWord == i + Len(words[k])
                afterSpace == SpanWhile(q, afterWord, FALSE)
                afterDigits == SpanWhile(q, afterSpace, TRUE)
            IN IF afterDigits = afterSpace THEN NoneRec
               ELSE [word |-> words[k],
                     digits |-> SubSeq(q, afterSpace, afterDigits - 1),
                     end |-> afterDigits]

\* re.search: the match at the first position that has one.
Search(q, words) ==
    LET hits == {i \in 1..Len(q) : MatchAt(q, i, words) # NoneRec}
    IN IF hits = {} THEN NoneRec
       ELSE MatchAt(q, CHOOSE i \in hits : \A j \in hits : i <= j, words)

\* The result triple of parse_gender_age_location_simple.
Simple(gender, age, location) ==
    [gender |-> gender, age |-> age, location |-> location]

\* parse_gender_age_location_simple, lines 200-230.  location is taken from
\* parts[1] before the pattern is tried (lines 210-211).
parse_gender_age_location_simple(text) ==
    LET parts == Split(text, Comma)
        first_part == Strip(parts[1])
        location == IF Len(parts) > 1 THEN Some(Strip(parts[2])) ELSE NoneRec
        match == MatchAt(first_part, 1, <<WordBat, WordBen, WordZug>>)
    IN IF match # NoneRec
       THEN Simple(Some(IF match.word = WordBat THEN "female"
                        ELSE IF match.word = WordBen THEN "male"
                        ELSE "couple"),
                   Some(ParseInt(match.digits)), location)
       ELSE Simple(NoneRec, NoneRec, location)

\* The marital tokens, in the order of the list of lines 170-171.
marital_options ==
    <<<<"r", "w", "w", "q">>,
      <<"r", "w", "w", "q", "h">>,
      <<"n", "S", "w", "y">>,
      <<"n", "S", "w", "a", "h">>,
      <<"g", "r", "w", "S">>,
      <<"g", "r", "w", "S", "h">>,
      <<"a", "l", "m", "N">>,
      <<"a", "l", "m", "n", "h">>,
      <<"b", "m", "e", "r", "k", "t", " ", "y", "H", "s", "y", "M">>,
      <<"p", "n", "w", "y">>,
      <<"p", "n", "w", "y", "h">>>>

\* The from-marker of line 187.
FromMarker == "m"

\* The result of parse_detailed_gender_age_location.
Detailed(marital_status_he, gender_he, age_num, location_he) ==
    [marital_status_he |-> marital_status_he, gender_he |-> gender_he,
     age_num |-> age_num, location_he |-> location_he]

\* Lines 172-176: the first option of the list the text starts with.
MaritalPrefix(text_content) ==
    LET fits == {k \in DOMAIN marital_options :
                    StartsWith(text_content, marital_options[k])}
    IN IF fits = {} THEN NoneRec
       ELSE Some(marital_options[CHOOSE k \in fits : \A j \in fits : k <= j])

\* Lines 187-190: the location from what is left of the text.
LocationOf(text_content) ==
    IF text_content # <<>> /\ Head(text_content) = FromMarker
    THEN Some(Strip(Tail(text_content)))
    ELSE IF text_content # <<>> THEN Some(Strip(text_content))
    ELSE NoneRec

\* parse_detailed_gender_age_location, lines 158-197.
parse_detailed_gender_age_location(text_content) ==
    IF text_content = <<>> THEN Detailed(NoneRec, NoneRec, NoneRec, NoneRec)
    ELSE LET marital == MaritalPrefix(text_content)
             t1 == IF marital = NoneRec THEN text_content
                   ELSE Strip(Drop(text_content, Len(marital.some)))
             gender_age_match == Search(t1, <<WordBen, WordBat>>)
             t2 == IF gender_age_match = NoneRec THEN t1
                   ELSE Strip(Drop(t1, gender_age_match.end - 1))
         IN Detailed(marital,
                     IF gender_age_match = NoneRec THEN NoneRec
                     ELSE Some(gender_age_match.word),
                     IF gender_age_match = NoneRec THEN NoneRec
                     ELSE Some(ParseInt(gender_age_match.digits)),
                     LocationOf(t2))

\* ----------------------------------------------------------- listing parser
\* parse_users_from_listing, lines 275-292.  A photo reference is the
\* sequence of its query parameters, each a pair <<name, value>>; the image
\* source of a container is absent (no img tag, or an empty src) or present
\* with its parameters.
Param(name, value) == <<name, value>>
NoSrc == [present |-> FALSE]
Src(params) == [present |-> TRUE, params |-> params]

\* "<name>=" in url
HasParam(url, name) == \E i \in DOMAIN url : url[i][1] = name

\* f"customerId={user_id}" in url, a substring test.
HasOwnerParam(url, user_id) ==
    \E i \in DOMAIN url :
        url[i][1] = "customerId" /\ DecimalPrefix(user_id, url[i][2])

\* Lines 289 and 291: picture.ashx?customerId=<user_id>&number=1
TemplateRef(user_id) == <<Param("customerId", user_id), Param("number", 1)>>

\* Lines 280-284: the source kept, with customerId and number=1 appended
\* when customerId is missing, and number=1 when only the number is.
CompletedRef(url, user_id) ==
    IF ~HasParam(url, "customerId")
    THEN url \o <<Param("customerId", user_id), Param("number", 1)>>
    ELSE IF ~HasParam(url, "number") THEN url \o <<Param("number", 1)>>
    ELSE url

\* Lines 275-292: photo_url_listing of a container.
photo_url_listing(src, user_id) ==
    IF ~src.present THEN TemplateRef(user_id)
    ELSE IF HasOwnerParam(src.params, user_id) \/ ~HasParam(src.params, "customerId")
         THEN CompletedRef(src.params, user_id)
         ELSE TemplateRef(user_id)

\* ------------------------------------------------------------- transformer
\* Python truthiness of an optional string.
Truthy(v) == v \notin {None, ""}

\* The gender words of the site, transliterated: "bat" (female), "ben" (male),
\* "zug" (couple).
\* hebrew_to_english_gender, lines 70-78.
hebrew_to_english_gender(gender_he) ==
    IF gender_he = "bat" THEN "female"
    ELSE IF gender_he = "ben" THEN "male"
    ELSE IF gender_he = "zug" THEN "couple"
    ELSE "other"

\* hebrew_gender_to_iam, lines 81-89.
hebrew_gender_to_iam(gender_he) ==
    IF gender_he = "bat" THEN "woman"
    ELSE IF gender_he = "ben" THEN "man"
    ELSE IF gender_he = "zug" THEN "couple"
    ELSE ""

\* Line 686: zbeng_user_data.get('gender_popup_he') or "".
GenderHe(data) == IF Truthy(data.gender_popup_he) THEN data.gender_popup_he ELSE ""

\* Lines 686-691: gender_en.  The two fallbacks are guarded by
\* `not gender_en`.
GenderEn(data) ==
    LET g0 == hebrew_to_english_gender(GenderHe(data))
        g1 == IF ~Truthy(g0) /\ Truthy(data.gender_popup_en)
              THEN data.gender_popup_en ELSE g0
    IN IF ~Truthy(g1) /\ Truthy(data.gender_listing)
       THEN data.gender_listing ELSE g1

\* Lines 694-701: i_am.
IAm(data) ==
    LET i0 == hebrew_gender_to_iam(GenderHe(data))
        g == GenderEn(data)
    IN IF ~Truthy(i0) /\ Truthy(g)
       THEN IF g = "female" THEN "woman"
            ELSE IF g = "male" THEN "man"
            ELSE IF g = "couple" THEN "couple"
            ELSE i0
       ELSE i0

\* Line 704: is_couple.
IsCouple(data) == IAm(data) = "couple" \/ GenderEn(data) = "couple"

\* Line 856: details.gender.
DetailsGender(data) == IF GenderEn(data) # "couple" THEN GenderEn(data) ELSE "other"

\* A tag is a number: -1 stands for None, 0 for the empty string, 1.. for a
\* non-empty tag string.  filter(None, ...) drops the first two.
Falsy == {-1, 0}

\* Values of a tag-list field of a raw record: missing or None, one string,
\* a list, or a value that is neither (a number).
TagsNone == [kind |-> "none", items |-> <<>>]
TagsStr(t) == [kind |-> "str", items |-> <<t>>]
TagsList(q) == [kind |-> "list", items |-> q]
TagsNumber == [kind |-> "number", items |-> <<>>]

\* list(x) raises TypeError on a number (lines 760, 769).
TagsRaise(v) == v.kind = "number"

\* Lines 750-754, 764-768: None becomes [], a string a one-element list.
TagsAsList(v) == v.items

\* filter(None, q).
FilterNone(q) == SelectSeq(q, LAMBDA t : t \notin Falsy)

RECURSIVE Reverse(_)
Reverse(q) == IF q = <<>> THEN <<>> ELSE Append(Reverse(Tail(q)), Head(q))

\* list(set(q)): the elements once each, in an order the hash table decides;
\* two orders stand for it.
SetOrders == {"asc", "desc"}
ListOfSet(S, order) == IF order = "asc" THEN SortedSeq(S) ELSE Reverse(SortedSeq(S))

\* Variant of ListOfSet without the set: the list as it is.
ListNoSet(q, order) == q

\* list(set(q)) of a list q.
ListSet(q, order) == ListOfSet(SeqRange(q), order)

\* q[:n].
Take(q, n) == IF Len(q) > n THEN SubSeq(q, 1, n) ELSE q

\* Lines 761 and 769: the limits of the two tag lists.
into_tags_limit == 7
turn_ons_limit == 6

\* Lines 750-761: details.intoTags.
IntoTags(data, order) ==
    Take(ListSet(FilterNone(TagsAsList(data.iam_into_summary_popup)
                              \o TagsAsList(data.iam_looking_for_tags_popup)),
                 order),
         into_tags_limit)

\* Lines 764-769: details.turnOns.
TurnOns(data, order) ==
    Take(ListSet(FilterNone(TagsAsList(data.turns_me_on_tags_popup)), order),
         turn_ons_limit)

\* An entry of the photos array: the file it was made of, isProfile, privacy.
PhotoEntry(file, isProfile, privacy) ==
    [file |-> file, isProfile |-> isProfile, privacy |-> privacy]

\* Lines 827-840: the synthesized placeholder entry.
PlaceholderFile == [placeholder |-> TRUE]
PlaceholderEntry == PhotoEntry(PlaceholderFile, TRUE, "public")

\* random.choice of line 809.
Privacies == {"private", "public", "friends_only"}

\* Line 804, 785: photo_file and os.path.exists(photo_file).
Resolved(fs, file) == file # NoneRec /\ Exists(fs, file)

RECURSIVE PopupEntries(_, _, _, _, _)
\* Lines 802-823: the entries of saved_popup_photo_files from index idx on;
\* random[idx] is what random.choice returns for that index.
PopupEntries(files, idx, listing_photo_file, fs, random) ==
    IF files = <<>> THEN <<>>
    ELSE LET photo_file == Head(files)
             rest == PopupEntries(Tail(files), idx + 1, listing_photo_file, fs, random)
         IN IF Resolved(fs, photo_file) /\ photo_file # listing_photo_file
            THEN <<PhotoEntry(photo_file, FALSE,
                              IF idx = 0 THEN "public" ELSE random[idx])>> \o rest
            ELSE rest

\* Lines 783-823: the entries made of the record's files.
FileEntries(data, fs, random) ==
    (IF Resolved(fs, data.saved_listing_photo_file)
     THEN <<PhotoEntry(data.saved_listing_photo_file, TRUE, "public")>>
     ELSE <<>>)
        \o PopupEntries(data.saved_popup_photo_files, 0,
                        data.saved_listing_photo_file, fs, random)

\* Variant of Photos without the default entry.
PhotosNoDefault(data, fs, random) == FileEntries(data, fs, random)

\* Lines 780-840: photos.
Photos(data, fs, random) ==
    IF FileEntries(data, fs, random) = <<>> THEN <<PlaceholderEntry>>
    ELSE FileEntries(data, fs, random)

\* convert_to_user_model, lines 677-880, on a raw record, the photo directory
\* and the outcomes of the random draws: the canonical record, as far as its
\* gender fields, tag lists and photos go, or None when an exception was
\* caught (lines 878-880).
UserModel(data, fs, random, order) ==
    IF \/ TagsRaise(data.iam_into_summary_popup)
       \/ TagsRaise(data.iam_looking_for_tags_popup)
       \/ TagsRaise(data.turns_me_on_tags_popup)
    THEN NoneRec
    ELSE [gender |-> DetailsGender(data),
          iAm |-> IAm(data),
          isCouple |-> IsCouple(data),
          intoTags |-> IntoTags(data, order),
          turnOns |-> TurnOns(data, order),
          photos |-> Photos(data, fs, random)]

\* ------------------------------------------------------------ dedup and files
\* A JSON file of the output directory: absent, or a list of records.
NoFile == [exists |-> FALSE, data |-> <<>>]
File(data) == [exists |-> TRUE, data |-> data]

\* Variant of load_existing_users that reads the canonical archive only.
load_existing_users_seed_only(raw, seed) ==
    {u.username : u \in SeqRange(seed.data)}

\* load_existing_users, lines 884-914: the identifiers of the raw archive
\* (key user_id) and the local parts of the e-mail addresses of the canonical
\* archive seed_users_with_photos.json.  seed_users.json is never written by
\* this program and does not exist; the temp file is not among the files
\* read.  A canonical record holds its user name, from which
\* convert_to_user_model builds the address <username>@example.com.
load_existing_users(raw, seed) ==
    {r.user_id : r \in SeqRange(raw.data)} \cup {u.username : u \in SeqRange(seed.data)}

\* Variant of the gate of line 1016 that lets every summary through.
IsSeenNever(user_id, processed) == FALSE

\* Line 1016: str(user_id) in processed_user_ids.  An identifier is the digit
\* string the listing parser captured, so str() changes nothing.
IsSeen(user_id, processed) == user_id \in processed

\* Variant of MarkSeen that forgets the identifiers seen before.
MarkSeenOnly(processed, user_id) == {user_id}

\* Line 1073: processed_user_ids.add(str(user_id)).
MarkSeen(processed, user_id) == processed \cup {user_id}

\* Variant of the test of line 1081 that is off by one record.
IncrementalSaveDueLate(n) == n % (SaveEvery + 1) = 0

\* Line 1081: len(all_scraped_user_data) % 25 == 0, the period scaled to
\* SaveEvery.
IncrementalSaveDue(n) == n % SaveEvery = 0

\* Line 979.
MAX_CONSECUTIVE_EMPTY_LISTING == 3

\* Line 972.
start_page == 1

\* Line 977, 981: the value the page iterator yields after current_page_num;
\* range(start_page, total_pages + 1) counts up, iter(lambda: start_page,
\* None) calls the lambda again and yields start_page every time.
NextPageNum(current, total) ==
    IF total > 0 THEN current + 1 ELSE start_page

\* range() is exhausted after total_pages; the callable iterator never is.
IteratorExhausted(current, total) == total > 0 /\ current + 1 > total

\* ---------------------------------------------------------------- variables
VARIABLES
    \* the output directory
    photoFs,        \* the photo directory
    rawFile,        \* users_data_complete.json
    seedFile,       \* seed_users_with_photos.json
    tmpFile,        \* users_data_complete.json.tmp
    \* the process
    pc,             \* where main() stands; "idle" when no process runs
    runs,           \* how many times main() was started
    lastExit,       \* how the previous run of main() ended
    processed_user_ids,
    all_scraped_user_data,
    seed_format_users,
    total_pages,
    current_page_num,
    consecutive_empty_listing_pages,
    users_on_page,  \* the summaries of the page not yet looked at
    full_user_data, \* the record being built
    \* history
    pageLog,        \* page numbers requested in the page loop (first MaxLog)
    calledForSeen,  \* a detail fetch or photo download was made for a seen id
    skippedSeen,    \* a summary of this run was skipped as seen
    runStartLen,    \* len(all_scraped_user_data) after loading
    tmpWriteFailed, \* an incremental save of this run raised
    netPending,     \* a network call was issued and no sleep has followed yet
    backToBack,     \* a network call was issued while another was pending
    photoCall,      \* SpecPhoto: the last download_photo call
    photoCalls,     \* SpecPhoto: number of download_photo calls made
    detailCall,     \* SpecDetail: the last fetch_and_parse_user_details call
    convertCall,    \* SpecConvert: the last convert_to_user_model call
    parseCall       \* SpecParse: the last call of a descriptor parser

fileVars == <<rawFile, seedFile, tmpFile>>
memVars == <<processed_user_ids, all_scraped_user_data, seed_format_users,
             total_pages, current_page_num, consecutive_empty_listing_pages,
             users_on_page, full_user_data>>
histVars == <<pageLog, calledForSeen, skippedSeen, runStartLen, tmpWriteFailed,
              netPending, backToBack>>
mainVars == <<fileVars, memVars, histVars, pc, runs, lastExit>>
callVars == <<photoCall, photoCalls, detailCall, convertCall, parseCall>>
vars == <<photoFs, mainVars, callVars>>

\* ------------------------------------------------------------ Spec: main()
Ids == 1..MaxId

\* The record cards of one listing page, as parse_users_from_listing returns
\* them: every summary has a user_id (cards without one are dropped at line
\* 271) and a photo reference (lines 275-292).
PageContents == UNION {[1..n -> Ids] : n \in 0..MaxPerPage}

\* The listing site: page 1 and the pages its pager announces exist; a page
\* beyond them shows no record card.
ServedPages(page_num, pager) ==
    IF page_num <= 1 \/ page_num <= pager THEN PageContents ELSE {<<>>}

\* Photo references of a record: the listing card's image is photo number 1.
ListingPhotoUrl(user_id) == ProfilePhotoUrl(user_id, 1)

\* What the photo endpoint does in a run of main(): the request fails, or a
\* real image arrives with no content type or as image/png.
MainPhotoNetOutcomes ==
    {FetchFailed} \cup Served({"", "image/png"}, {RealSize}, {TRUE})

\* What a download_photo call of main() (lines 1034, 1066) can do for a
\* reference: its returned path or None, and whether it went to the network.
\* Which of them depends on the photo directory and the photo endpoint, which
\* SpecPhoto goes through; a run of main() is followed for every result of a
\* call on a directory without the file.
MainPhotoCalls(photo_url, user_id, photo_label, gender) ==
    {download_photo(EmptyFs, photo_url, user_id, photo_label, gender, net) :
        net \in MainPhotoNetOutcomes}

\* What the detail endpoint answers in a run of main().
MainDetailResponses ==
    {[ok |-> FALSE, text |-> EmptyText]}
        \cup {[ok |-> TRUE, text |-> t] :
                t \in {EmptyText, JsonObject(TRUE, 2, {}), JsonOther("array"),
                       NotJson({})}}

\* User names convert_to_user_model derives from the nickname; 0 stands for a
\* name that is no record identifier (the nicknames are not digit strings).
Usernames == {0}

NoRecord == [user_id |-> 0]

Cut(q) == IF Len(q) > MaxLog THEN SubSeq(q, 1, MaxLog) ELSE q

\* The memory of a process that does not run.
MemIdle ==
    /\ processed_user_ids' = {}
    /\ all_scraped_user_data' = <<>>
    /\ seed_format_users' = <<>>
    /\ total_pages' = 0
    /\ current_page_num' = 0
    /\ consecutive_empty_listing_pages' = 0
    /\ users_on_page' = <<>>
    /\ full_user_data' = NoRecord

Init ==
    /\ photoFs = EmptyFs
    /\ rawFile = NoFile /\ seedFile = NoFile /\ tmpFile = NoFile
    /\ pc = "idle" /\ runs = 0 /\ lastExit = "none"
    /\ processed_user_ids = {}
    /\ all_scraped_user_data = <<>>
    /\ seed_format_users = <<>>
    /\ total_pages = 0
    /\ current_page_num = 0
    /\ consecutive_empty_listing_pages = 0
    /\ users_on_page = <<>>
    /\ full_user_data = NoRecord
    /\ pageLog = <<>>
    /\ calledForSeen = FALSE
    /\ skippedSeen = FALSE
    /\ runStartLen = 0
    /\ tmpWriteFailed = FALSE
    /\ netPending = FALSE
    /\ backToBack = FALSE
    /\ photoCall = [kind |-> "none"]
    /\ photoCalls = 0
    /\ detailCall = [kind |-> "none"]
    /\ convertCall = [kind |-> "none"]
    /\ parseCall = [kind |-> "none"]

\* The process ends: its memory is gone, the files stay.  The history of the
\* run is dropped with it, but for a call made for a seen identifier.
EndRun(how) ==
    /\ pc' = "idle"
    /\ lastExit' = how
    /\ MemIdle
    /\ pageLog' = <<>>
    /\ skippedSeen' = FALSE
    /\ runStartLen' = 0
    /\ tmpWriteFailed' = FALSE
    /\ netPending' = FALSE
    /\ backToBack' = FALSE

\* Variant of StartFirstPageFailed that saves what was loaded before it
\* returns.
StartFirstPageFailedSaving ==
    /\ pc = "idle" /\ runs < MaxRuns
    /\ runs' = runs + 1
    /\ EndRun("first_page_failed")
    /\ rawFile' = File(rawFile.data)
    /\ seedFile' = File(seedFile.data)
    /\ tmpFile' = NoFile
    /\ UNCHANGED <<photoFs, calledForSeen, callVars>>

\* main(), lines 917-970, when the first listing page cannot be fetched.
StartFirstPageFailed ==
    /\ pc = "idle" /\ runs < MaxRuns
    /\ runs' = runs + 1
    /\ EndRun("first_page_failed")
    /\ UNCHANGED <<photoFs, fileVars, calledForSeen, callVars>>

\* main(), lines 917-979: load the prior output, fetch page 1, read its pager.
StartRun ==
    /\ pc = "idle" /\ runs < MaxRuns
    /\ runs' = runs + 1
    /\ \E detected_max_page \in 0..MaxPages :
        total_pages' = detected_max_page
    /\ processed_user_ids' = load_existing_users(rawFile, seedFile)
    /\ all_scraped_user_data' = rawFile.data
    /\ seed_format_users' = seedFile.data
    /\ current_page_num' = 0
    /\ consecutive_empty_listing_pages' = 0
    /\ users_on_page' = <<>>
    /\ full_user_data' = NoRecord
    /\ pc' = "page_loop"
    /\ pageLog' = <<>> /\ skippedSeen' = FALSE
    /\ runStartLen' = Len(rawFile.data) /\ tmpWriteFailed' = FALSE
    /\ netPending' = TRUE /\ backToBack' = FALSE
    /\ UNCHANGED <<photoFs, fileVars, lastExit, calledForSeen, callVars>>

\* Lines 981-989: the iterator is exhausted or a break condition holds.
PageLoopStops ==
    \/ IteratorExhausted(current_page_num, total_pages)
    \/ (total_pages = 0
        /\ consecutive_empty_listing_pages >= MAX_CONSECUTIVE_EMPTY_LISTING)
    \/ (total_pages > 0 /\ NextPageNum(current_page_num, total_pages) > total_pages)

LeavePageLoop ==
    /\ pc = "page_loop"
    /\ PageLoopStops
    /\ pc' = "final_save"
    /\ UNCHANGED <<photoFs, fileVars, memVars, histVars, runs, lastExit, callVars>>

\* Lines 981-1000: the next page is requested and the fetch fails.
ListingFetchFailed ==
    /\ pc = "page_loop"
    /\ ~PageLoopStops
    /\ current_page_num' = NextPageNum(current_page_num, total_pages)
    /\ pageLog' = Cut(Append(pageLog, current_page_num'))
    /\ consecutive_empty_listing_pages' =
          IF total_pages = 0 THEN consecutive_empty_listing_pages + 1
          ELSE consecutive_empty_listing_pages
    /\ backToBack' = (backToBack \/ netPending)
    /\ netPending' = FALSE
    /\ UNCHANGED <<photoFs, fileVars, processed_user_ids, all_scraped_user_data,
                   seed_format_users, total_pages, users_on_page, full_user_data,
                   calledForSeen, skippedSeen, runStartLen, tmpWriteFailed, pc,
                   runs, lastExit, callVars>>

\* Lines 981-1009: the next page is requested and parsed.
ListingPage ==
    /\ pc = "page_loop"
    /\ ~PageLoopStops
    /\ current_page_num' = NextPageNum(current_page_num, total_pages)
    /\ pageLog' = Cut(Append(pageLog, current_page_num'))
    /\ \E users \in ServedPages(current_page_num', total_pages) :
        /\ users_on_page' = users
        /\ IF users = <<>>
           THEN /\ consecutive_empty_listing_pages' =
                     IF total_pages = 0 THEN consecutive_empty_listing_pages + 1
                     ELSE consecutive_empty_listing_pages
                /\ pc' = "page_loop"
                /\ netPending' = FALSE
           ELSE /\ consecutive_empty_listing_pages' =
                     IF total_pages = 0 THEN 0 ELSE consecutive_empty_listing_pages
                /\ pc' = "users"
                /\ netPending' = TRUE
    /\ backToBack' = (backToBack \/ netPending)
    /\ UNCHANGED <<photoFs, fileVars, processed_user_ids, all_scraped_user_data,
                   seed_format_users, total_pages, full_user_data,
                   calledForSeen, skippedSeen, runStartLen, tmpWriteFailed, runs,
                   lastExit, callVars>>

\* Lines 1011-1019: a summary whose identifier is in the seen set is skipped.
SkipSeenUser ==
    /\ pc = "users"
    /\ users_on_page # <<>>
    /\ IsSeen(Head(users_on_page), processed_user_ids)
    /\ users_on_page' = Tail(users_on_page)
    /\ skippedSeen' = TRUE
    /\ UNCHANGED <<photoFs, fileVars, processed_user_ids, all_scraped_user_data,
                   seed_format_users, total_pages, current_page_num,
                   consecutive_empty_listing_pages, full_user_data, pageLog,
                   calledForSeen, runStartLen, tmpWriteFailed,
                   netPending, backToBack, pc, runs, lastExit, callVars>>

\* Lines 1011-1035: a new summary; its listing photo is resolved.
ListingPhoto ==
    /\ pc = "users"
    /\ users_on_page # <<>>
    /\ ~IsSeen(Head(users_on_page), processed_user_ids)
    /\ LET user_id == Head(users_on_page)
       IN \E call \in MainPhotoCalls(ListingPhotoUrl(user_id), user_id, ListingLabel, None) :
               /\ backToBack' = (backToBack \/ (call.fetched /\ netPending))
               /\ netPending' = (netPending \/ call.fetched)
               /\ full_user_data' =
                    [user_id |-> user_id, error |-> None,
                     saved_listing_photo_file |-> call.ret,
                     gender_for_photo |-> None,
                     popup_todo |-> <<>>, popup_i |-> 0,
                     saved_popup_photo_files |-> <<>>]
               /\ calledForSeen' =
                    (calledForSeen \/ user_id \in processed_user_ids)
    /\ users_on_page' = Tail(users_on_page)
    /\ pc' = "details"
    /\ UNCHANGED <<photoFs, fileVars, processed_user_ids, all_scraped_user_data,
                   seed_format_users, total_pages, current_page_num,
                   consecutive_empty_listing_pages, pageLog, skippedSeen,
                   runStartLen, tmpWriteFailed, runs, lastExit, callVars>>

\* Lines 1037-1048: the detail fetch; an exception it lets through ends the
\* process with a traceback.
FetchDetails ==
    /\ pc = "details"
    /\ \E resp \in MainDetailResponses :
        LET user_popup_details ==
                fetch_and_parse_user_details(full_user_data.user_id, resp)
        IN /\ calledForSeen' =
                (calledForSeen \/ full_user_data.user_id \in processed_user_ids)
           /\ IF user_popup_details.tag = "raise"
              THEN /\ EndRun("raised")
              ELSE /\ backToBack' = (backToBack \/ netPending)
                   /\ netPending' = TRUE
                   /\ full_user_data' =
                        [full_user_data EXCEPT
                           !.error = user_popup_details.error,
                           !.gender_for_photo =
                               IF user_popup_details.gender_popup_en # None
                               THEN user_popup_details.gender_popup_en
                               ELSE @,
                           !.popup_todo = user_popup_details.photo_urls_popup]
                   /\ pc' = "popup_photos"
                   /\ UNCHANGED <<processed_user_ids, all_scraped_user_data,
                                  seed_format_users, total_pages, current_page_num,
                                  consecutive_empty_listing_pages, users_on_page,
                                  lastExit, pageLog, skippedSeen, runStartLen,
                                  tmpWriteFailed>>
    /\ UNCHANGED <<photoFs, fileVars, runs, callVars>>

AppendNew(q, x) == IF x \in SeqRange(q) THEN q ELSE Append(q, x)

\* Lines 1051-1069: one reference of photo_urls_popup.
PopupPhoto ==
    /\ pc = "popup_photos"
    /\ full_user_data.popup_todo # <<>>
    /\ LET p_url == Head(full_user_data.popup_todo)
           i == full_user_data.popup_i
           listing == full_user_data.saved_listing_photo_file
       IN IF p_url = ListingPhotoUrl(full_user_data.user_id) /\ listing # NoneRec
          THEN /\ full_user_data' =
                    [full_user_data EXCEPT
                       !.popup_todo = Tail(@), !.popup_i = i + 1,
                       !.saved_popup_photo_files = AppendNew(@, listing)]
               /\ UNCHANGED <<calledForSeen, netPending, backToBack>>
          ELSE \E call \in
                    MainPhotoCalls(p_url, full_user_data.user_id, PopupLabel(i + 1),
                                   full_user_data.gender_for_photo) :
                    /\ backToBack' = (backToBack \/ (call.fetched /\ netPending))
                    /\ netPending' = FALSE
                    /\ full_user_data' =
                         [full_user_data EXCEPT
                            !.popup_todo = Tail(@), !.popup_i = i + 1,
                            !.saved_popup_photo_files =
                                IF call.ret # NoneRec
                                THEN AppendNew(@, call.ret) ELSE @]
                    /\ calledForSeen' =
                         (calledForSeen
                            \/ full_user_data.user_id \in processed_user_ids)
    /\ UNCHANGED <<photoFs, fileVars, processed_user_ids, all_scraped_user_data,
                   seed_format_users, total_pages, current_page_num,
                   consecutive_empty_listing_pages, users_on_page, pageLog,
                   skippedSeen, runStartLen, tmpWriteFailed, pc, runs, lastExit,
                   callVars>>

\* Variant of RawRecord that appends a record without its identifier.
RawRecordBlank(data) == NoRecord

\* The raw record main() appends (line 1072), as far as the archive is read
\* again: its identifier.
RawRecord(data) == [user_id |-> data.user_id]

\* convert_to_user_model, lines 677-880, as far as main() and
\* load_existing_users read its result: a canonical record with the user
\* name of its e-mail address, or None when an exception was caught.  from
\* is the identifier of the raw record it was made of.
convert_to_user_model(data, ok, username) ==
    IF ok THEN <<[username |-> username, from |-> data.user_id]>> ELSE <<>>

\* Lines 1070-1090: the record is appended and marked seen, converted, and
\* the temp file is written when the save is due.
FinishRecord ==
    /\ pc = "popup_photos"
    /\ full_user_data.popup_todo = <<>>
    /\ all_scraped_user_data' =
          Append(all_scraped_user_data, RawRecord(full_user_data))
    /\ processed_user_ids' = MarkSeen(processed_user_ids, full_user_data.user_id)
    /\ \E ok \in BOOLEAN, username \in Usernames :
          seed_format_users' =
              seed_format_users \o convert_to_user_model(full_user_data, ok, username)
    /\ IF IncrementalSaveDue(Len(all_scraped_user_data'))
       THEN \E writeOk \in BOOLEAN :
              /\ tmpFile' = IF writeOk THEN File(all_scraped_user_data') ELSE tmpFile
              /\ tmpWriteFailed' = (tmpWriteFailed \/ ~writeOk)
       ELSE UNCHANGED <<tmpFile, tmpWriteFailed>>
    /\ full_user_data' = NoRecord
    /\ netPending' = FALSE
    /\ pc' = "users"
    /\ UNCHANGED <<backToBack, photoFs, rawFile, seedFile, total_pages, current_page_num,
                   consecutive_empty_listing_pages, users_on_page, pageLog,
                   calledForSeen, skippedSeen, runStartLen, runs, lastExit,
                   callVars>>

\* Lines 1092-1098: the page is done.
PageDone ==
    /\ pc = "users"
    /\ users_on_page = <<>>
    /\ pc' = IF total_pages > 0 /\ current_page_num = total_pages
             THEN "final_save" ELSE "page_loop"
    /\ netPending' = FALSE
    /\ UNCHANGED <<photoFs, fileVars, memVars, pageLog, calledForSeen, skippedSeen,
                   runStartLen, tmpWriteFailed, backToBack, runs, lastExit,
                   callVars>>

\* Lines 1100-1129: the final save.  The raw archive is written first, then
\* the canonical one, then the temp file is removed; an exception of either
\* write skips what follows it, an OSError of os.remove is only logged.
FinalSave ==
    /\ pc = "final_save"
    /\ \E rawOk \in BOOLEAN, seedOk \in BOOLEAN, removeOk \in BOOLEAN :
        /\ rawFile' = IF rawOk THEN File(all_scraped_user_data) ELSE rawFile
        /\ seedFile' = IF rawOk /\ seedOk THEN File(seed_format_users) ELSE seedFile
        /\ tmpFile' = IF rawOk /\ seedOk /\ removeOk THEN NoFile ELSE tmpFile
        /\ EndRun(IF ~(rawOk /\ seedOk) THEN "save_failed"
                  ELSE IF removeOk \/ ~tmpFile.exists THEN "saved"
                  ELSE "saved_tmp_left")
    /\ UNCHANGED <<photoFs, calledForSeen, runs, callVars>>

\* The process is killed from outside.
Kill ==
    /\ pc # "idle"
    /\ EndRun("killed")
    /\ UNCHANGED <<photoFs, fileVars, calledForSeen, runs, callVars>>

Step ==
    \/ StartFirstPageFailed
    \/ StartRun
    \/ LeavePageLoop
    \/ ListingFetchFailed
    \/ ListingPage
    \/ SkipSeenUser
    \/ ListingPhoto
    \/ FetchDetails
    \/ PopupPhoto
    \/ FinishRecord
    \/ PageDone
    \/ FinalSave

Next == Step \/ Kill

Spec == Init /\ [][Next]_vars

\* A started process keeps running until it ends or is killed.
SpecFair == Spec /\ WF_vars(Step)

\* ------------------------------------------------------- claims on main()
\* C1: dedup gate: no detail fetch and no photo download is ever made for a
\* record identifier that is in the seen set (loaded at startup or added
\* earlier in the run); the seen check comes before both calls.
C1_DedupGate == ~calledForSeen

\* In a first run on an empty output directory a summary was skipped because
\* its identifier had been added to the seen set earlier in the run.
C1_Witness ==
    /\ runs = 1
    /\ skippedSeen
    /\ processed_user_ids # {}

\* C2: on a listing without pagination control (detected max page 0) the
\* run leaves the page loop and reaches the final save (or is ended from
\* outside), whatever page 1 holds.
C2_SinglePageTerminates ==
    (pc = "page_loop" /\ total_pages = 0) ~> (pc \in {"final_save", "idle"})

\* C3: in dynamic page-count mode the page loop requests page 1, then 2,
\* then 3, ..., each page index at most once.
C3_SequentialPages ==
    (pc # "idle" /\ total_pages = 0)
        => \A i \in DOMAIN pageLog : pageLog[i] = i

\* C8: no failure while a record is processed ends the run; a run ends by
\* its final save, by the failed fetch of the first listing page, or from
\* outside, never by an exception.
C8_OnlyFirstPageFailureEndsRun == lastExit # "raised"

\* C9: in a rerun after a kill, every record of the temp file left by the
\* killed run is in the seen set.
C9_RerunSeesTmpRecords ==
    (pc # "idle" /\ lastExit = "killed" /\ tmpFile.exists)
        => \A i \in DOMAIN tmpFile.data :
              tmpFile.data[i].user_id \in processed_user_ids

\* Records completed in this run, and those of them that the temp file does
\* not hold.
CompletedInRun == Len(all_scraped_user_data) - runStartLen
MissingFromTmp ==
    {i \in (runStartLen + 1)..Len(all_scraped_user_data) :
        ~(/\ tmpFile.exists
          /\ i <= Len(tmpFile.data)
          /\ tmpFile.data[i] = all_scraped_user_data[i])}

InRun == pc \in {"users", "page_loop", "final_save"}

\* C10 as stated (period SaveEvery for 25): the temp file is written after
\* every SaveEvery-th record completed in the run, so that it then holds
\* every record of the run; once SaveEvery records have been completed in
\* the run fewer than SaveEvery of them are missing from the temp file; and
\* after a final save that succeeded the temp file does not exist.
C10_IncrementalSave ==
    /\ (InRun /\ CompletedInRun > 0 /\ CompletedInRun % SaveEvery = 0)
          => MissingFromTmp = {}
    /\ (InRun /\ CompletedInRun >= SaveEvery)
          => Cardinality(MissingFromTmp) < SaveEvery
    /\ (pc = "idle" /\ lastExit \in {"saved", "saved_tmp_left"})
          => ~tmpFile.exists

\* C10 amended: the temp file is written whenever the number of records in
\* memory, those loaded at startup included, is a multiple of SaveEvery;
\* provided no incremental write of the run raised, it then holds every
\* record of the run, and fewer than SaveEvery records of the run are
\* missing from it once SaveEvery have been completed; after a successful
\* final save the temp file does not exist unless removing it raised.
C10_IncrementalSaveOnTotal ==
    /\ (/\ InRun
        /\ CompletedInRun > 0
        /\ Len(all_scraped_user_data) % SaveEvery = 0
        /\ ~tmpWriteFailed)
          => MissingFromTmp = {}
    /\ (InRun /\ CompletedInRun >= SaveEvery /\ ~tmpWriteFailed)
          => Cardinality(MissingFromTmp) < SaveEvery
    /\ (pc = "idle" /\ lastExit = "saved") => ~tmpFile.exists

\* A run that started from a loaded archive whose length is no multiple of
\* the period has completed SaveEvery records; the temp file was written
\* before the last of them and misses it.
C10_Witness ==
    /\ pc = "users"
    /\ runStartLen % SaveEvery # 0
    /\ CompletedInRun = SaveEvery
    /\ ~tmpWriteFailed
    /\ tmpFile.exists
    /\ Cardinality(MissingFromTmp) = SaveEvery - 1

\* Identifiers of the records this run appended to the raw accumulator, and
\* of the raw records behind the canonical records it appended.
RunRawIds ==
    {all_scraped_user_data[i].user_id :
        i \in (Len(rawFile.data) + 1)..Len(all_scraped_user_data)}
RunSeedIds ==
    {seed_format_users[j].from :
        j \in (Len(seedFile.data) + 1)..Len(seed_format_users)}

\* C11 as stated: between two record-processing steps no record of the run is
\* in one accumulator (raw list, canonical list) and missing from the other.
C11_BothAccumulatorsOrNone == InRun => RunRawIds = RunSeedIds

\* C11 amended: between two record-processing steps every record the run
\* added to the canonical list is in the raw list too; a record whose
\* conversion returned None is in the raw list alone.
C11_CanonicalImpliesRaw ==
    InRun => /\ RunSeedIds \subseteq RunRawIds
             /\ Len(seed_format_users) - Len(seedFile.data)
                    <= Len(all_scraped_user_data) - Len(rawFile.data)

\* The run completed two records, one converted and one not.
C11_Witness ==
    /\ pc = "users"
    /\ Cardinality(RunRawIds) = 2
    /\ Cardinality(RunSeedIds) = 1

\* C13: during a run the seen set starts as the set built from the prior
\* output files, never loses an identifier, and holds the identifier of
\* every record the run appended to the raw accumulator from the append on.
C13_SeenSetMonotonic ==
    [][/\ (pc = "idle" /\ pc' # "idle")
            => processed_user_ids' = load_existing_users(rawFile, seedFile)
       /\ (pc # "idle" /\ pc' # "idle")
            => processed_user_ids \subseteq processed_user_ids'
       /\ pc' # "idle" => RunRawIds' \subseteq processed_user_ids']_vars

\* A rerun that loaded identifiers from the raw archive has appended a record
\* of its own, and the seen set holds more than the run's records.
C13_Witness ==
    /\ pc = "users"
    /\ Len(rawFile.data) > 0
    /\ RunRawIds # {}
    /\ processed_user_ids # RunRawIds

\* C12: in a run no network call (listing fetch, detail fetch, photo fetch)
\* is issued directly after another one without a sleep in between.
C12_DelayBetweenNetworkCalls == ~backToBack

\* The pages 1, ..., n in increasing order.
PagesUpTo(n) == [i \in 1..n |-> i]

\* In known page-count mode the pages requested so far are 1, 2, ... in
\* increasing order, none beyond total_pages, and all of them when the final
\* save is reached.
KnownCountPagesInOrder ==
    (pc # "idle" /\ total_pages > 0)
        => /\ Len(pageLog) <= total_pages
           /\ pageLog = PagesUpTo(Len(pageLog))
           /\ pc = "final_save" => pageLog = PagesUpTo(total_pages)

\* A run in known page-count mode that is not killed ends by the final save.
KnownCountEndsBySave ==
    (pc # "idle" /\ total_pages > 0 /\ pc' = "idle")
        => (pc = "final_save" \/ lastExit' = "killed")

\* C22: when the first page yields a max page index N > 0, the page loop
\* requests pages 1, ..., N in increasing order, each exactly once and none
\* beyond N, and the run then performs the final save.
C22_KnownCountPagesThenSave ==
    []KnownCountPagesInOrder /\ [][KnownCountEndsBySave]_vars

\* C23: when the fetch of the first listing page fails, main() ends at once:
\* no record is processed, so no detail fetch and no photo download is made,
\* and the raw archive, the canonical archive, the temp file and the photo
\* directory are left as they were.
C23_FirstPageFailureTouchesNothing ==
    [][(runs' = runs + 1 /\ lastExit' = "first_page_failed" /\ pc' = "idle")
          => /\ pc = "idle"
             /\ fileVars' = fileVars
             /\ photoFs' = photoFs
             /\ calledForSeen' = calledForSeen]_vars

\* A run has just ended on a failed first page, with both archives and the
\* temp file of an earlier run in the output directory.
C23_Witness ==
    /\ pc = "idle" /\ lastExit = "first_page_failed" /\ runs = MaxRuns
    /\ rawFile.exists /\ seedFile.exists /\ tmpFile.exists
    /\ rawFile.data # <<>>

\* No two records of a list share an identifier.
DistinctIds(records) ==
    \A i, j \in DOMAIN records :
        i # j => records[i].user_id # records[j].user_id

\* C24: no two records of the raw accumulator, and none of the raw archive
\* the final save writes, share an identifier, also when an identifier is
\* listed several times on one page or on several pages.
C24_NoDuplicateRecords ==
    /\ DistinctIds(all_scraped_user_data)
    /\ DistinctIds(rawFile.data)

\* A rerun that loaded a raw archive, skipped a listed identifier as seen,
\* added a record of its own and stands before its final save.
C24_Witness ==
    /\ pc = "final_save" /\ runs = 2
    /\ runStartLen > 0
    /\ skippedSeen
    /\ Len(all_scraped_user_data) > runStartLen

\* The identifiers of the records of a list.
IdsOf(records) == {records[i].user_id : i \in DOMAIN records}

\* C25: when main() is through with a summary it started to process, and was
\* not killed, the record is in the raw accumulator and its identifier in
\* the seen set, whatever the detail fetch, the photo downloads and the
\* conversion gave; so it is not processed again.
C25_StartedRecordIsKept ==
    [][(full_user_data # NoRecord /\ full_user_data' = NoRecord
            /\ lastExit' # "killed")
          => /\ full_user_data.user_id \in processed_user_ids'
             /\ full_user_data.user_id \in IdsOf(all_scraped_user_data')]_vars

\* ------------------------------------------------- SpecPhoto: download_photo
\* URLs handed to download_photo: None, the transparent pixel, and references
\* without extension, with an upper-case one, with .jpeg and with .png.
PhotoUrl(number, ext) ==
    [transparent |-> FALSE, number |-> number, ext |-> ext, customerId |-> 1]
TransparentUrl ==
    [transparent |-> TRUE, number |-> 0, ext |-> ".gif", customerId |-> 0]
PhotoUrls ==
    {NoneRec, TransparentUrl} \cup {PhotoUrl(1, e) : e \in {"", ".JPG", ".jpeg", ".png"}}

PhotoNetOutcomes ==
    {FetchFailed, WriteFailed}
        \cup Served(ContentTypes, {RealSize}, {TRUE})
        \cup Served(ContentTypes, {0} \cup placeholder_sizes_bytes, BOOLEAN)

\* The existing placeholder-sized file a call finds at its computed path
\* (NoneRec when there is none).
StalePath(fs, url, user_id, photo_label, gender) ==
    IF url = NoneRec THEN NoneRec
    ELSE IF url.transparent THEN NoneRec
    ELSE LET p == FilePath(PhotoFilenameBase(url, user_id, photo_label, gender),
                           Extension(url))
         IN IF Exists(fs, p) /\ GetSize(fs, p) \in placeholder_sizes_bytes
            THEN p ELSE NoneRec

InitPhoto == Init

\* One call download_photo(url, 1, dir, "listing_main", gender=None).
CallDownloadPhoto ==
    /\ photoCalls < MaxCalls
    /\ \E url \in PhotoUrls, net \in PhotoNetOutcomes :
        LET r == download_photo(photoFs, url, 1, ListingLabel, None, net)
        IN /\ photoFs' = r.fs
           /\ photoCall' = [kind |-> "call", url |-> url, ret |-> r.ret,
                            fetched |-> r.fetched, wrote |-> r.wrote,
                            size |-> IF r.wrote = NoneRec THEN 0 ELSE net.size,
                            removeOk |-> net.removeOk,
                            stale |-> StalePath(photoFs, url, 1, ListingLabel, None)]
    /\ photoCalls' = photoCalls + 1
    /\ UNCHANGED <<mainVars, detailCall, convertCall, parseCall>>

\* Somebody deletes a file of the photo directory between two calls.
DeletePhotoFile ==
    /\ photoCall.kind = "call"
    /\ \E p \in DOMAIN photoFs :
        /\ photoFs' = Remove(photoFs, p)
        /\ photoCall' = [kind |-> "delete"]
    /\ UNCHANGED <<photoCalls, mainVars, detailCall, convertCall, parseCall>>

NextPhoto == CallDownloadPhoto \/ DeletePhotoFile

SpecPhoto == InitPhoto /\ [][NextPhoto]_vars

\* ------------------------------------------------------- claims on SpecPhoto
BadSizes == {0} \cup placeholder_sizes_bytes

\* C4: photo resolution is idempotent: when a call returned a path and no
\* file is deleted before the next call, a next call with the same arguments
\* returns the same path and performs no network fetch.
C4_IdempotentResolution ==
    [][(/\ photoCall.kind = "call"
        /\ photoCall'.kind = "call"
        /\ photoCalls' = photoCalls + 1
        /\ photoCall.ret # NoneRec
        /\ photoCall'.url = photoCall.url)
       => (photoCall'.ret = photoCall.ret /\ ~photoCall'.fetched)]_vars

\* C5 as stated: a call that finds a placeholder-sized file at its computed
\* path deletes it and then fetches the reference from the network.
C5_StaleRefetched ==
    (photoCall.kind = "call" /\ photoCall.stale # NoneRec)
        => (photoCall.fetched /\ ~Exists(photoFs, photoCall.stale))

\* C5 amended: a call that finds a placeholder-sized file at its computed
\* path returns None without any network fetch, and the stale file is gone
\* afterwards unless os.remove raised.
C5_StaleDeletedNoFetch ==
    (photoCall.kind = "call" /\ photoCall.stale # NoneRec)
        => /\ photoCall.ret = NoneRec
           /\ ~photoCall.fetched
           /\ photoCall.removeOk => ~Exists(photoFs, photoCall.stale)
           /\ ~photoCall.removeOk => Exists(photoFs, photoCall.stale)

\* A call found a stale placeholder and deleted it.
C5_Witness ==
    /\ photoCall.kind = "call"
    /\ photoCall.stale # NoneRec
    /\ photoCall.removeOk
    /\ ~Exists(photoFs, photoCall.stale)

CustomerIds == {0} \cup Ids \cup {10 * i + 1 : i \in Ids}

\* The references of a detail page: none, one or two.
HtmlRefs == {HtmlRef(n, c) : n \in {1, 2}, c \in CustomerIds}
HtmlRefSets == {S \in SUBSET HtmlRefs : Cardinality(S) <= 2}

\* Detail responses: a failed request, and every kind of body.
DetailResponses ==
    {[ok |-> FALSE, text |-> EmptyText]}
        \cup {[ok |-> TRUE, text |-> t] :
                t \in {EmptyText}
                    \cup {JsonObject(typed, g, imgs) :
                            typed \in BOOLEAN, g \in 0..4, imgs \in SUBSET {2, 3, 4}}
                    \cup {JsonOther(w) : w \in JsonOtherKinds}
                    \cup {NotJson(ph) : ph \in HtmlRefSets}}

\* One call fetch_and_parse_user_details(user_id).
CallFetchDetails ==
    /\ \E user_id \in Ids, resp \in DetailResponses :
        detailCall' = [kind |-> "call", user_id |-> user_id, resp |-> resp,
                       result |-> fetch_and_parse_user_details(user_id, resp)]
    /\ UNCHANGED <<photoFs, mainVars, photoCall, photoCalls, convertCall, parseCall>>

NextDetail == CallFetchDetails

SpecDetail == Init /\ [][NextDetail]_vars

\* C7: for every detail payload text of a successful fetch,
\* fetch_and_parse_user_details returns a detail structure or an error
\* marker; empty text gives the empty-payload marker and text that fails
\* JSON decoding goes to the HTML-form mapping.
C7_DetailNeverRaises ==
    (detailCall.kind = "call" /\ detailCall.resp.ok)
        => /\ detailCall.result.tag \in {"details", "error"}
           /\ detailCall.resp.text.kind = "empty"
                => detailCall.result = ErrorMarker("Fetched popup content is empty")
           /\ detailCall.resp.text.kind = "not_json"
                => detailCall.result =
                     parse_user_details_from_popup_html(detailCall.resp.text,
                                                        detailCall.user_id)

\* C20: every reference in photo_urls_popup returned by
\* parse_user_details_from_popup_html carries the owning identifier as its
\* customerId, and the list is sorted and has no duplicates.
C20_RefsCarryOwnerId ==
    (/\ detailCall.kind = "call" /\ detailCall.resp.ok
     /\ detailCall.resp.text.kind = "not_json")
        => LET urls == detailCall.result.photo_urls_popup
           IN /\ \A i \in DOMAIN urls : urls[i].customerId = detailCall.user_id
              /\ \A i, j \in DOMAIN urls :
                    i < j => (urls[i] # urls[j] /\ UrlKey(urls[i]) <= UrlKey(urls[j]))

\* ------------------------------------------- SpecConvert: convert_to_user_model
\* Photo files a raw record can name.
PhotoFiles == {FilePath(n, ".jpg") : n \in 1..MaxFiles}

\* A raw record with no photo, no gender and no tag.
BlankRaw ==
    [saved_listing_photo_file |-> NoneRec,
     saved_popup_photo_files |-> <<>>,
     gender_popup_he |-> None, gender_popup_en |-> None, gender_listing |-> None,
     iam_into_summary_popup |-> TagsNone,
     iam_looking_for_tags_popup |-> TagsNone,
     turns_me_on_tags_popup |-> TagsNone]

\* Raw records that differ in their photo files: a listing file or none, and
\* up to two detail files.
PhotoRaws ==
    {[BlankRaw EXCEPT !.saved_listing_photo_file = l,
                      !.saved_popup_photo_files = q] :
        l \in {NoneRec} \cup PhotoFiles,
        q \in UNION {[1..n -> PhotoFiles] : n \in 0..2}}

\* Raw records that differ in their gender fields; "xx" is a word the table
\* does not know.
GenderRaws ==
    {[BlankRaw EXCEPT !.gender_popup_he = he, !.gender_popup_en = en,
                      !.gender_listing = li] :
        he \in {None, "", "bat", "ben", "zug", "xx"},
        en \in {None, "male", "female", "couple"},
        li \in {None, "male", "female", "couple"}}

\* Tag lists: the tags lo..hi, followed by None and "" when falsy is set and
\* by a second lo when dup is set.
TagRun(lo, hi, falsy, dup) ==
    [i \in 1..(IF hi >= lo THEN hi - lo + 1 ELSE 0) |-> lo + i - 1]
        \o (IF falsy THEN <<-1, 0>> ELSE <<>>)
        \o (IF dup THEN <<lo>> ELSE <<>>)

TagFieldValues ==
    {TagsNone, TagsNumber, TagsStr(0), TagsStr(1)}
        \cup {TagsList(TagRun(1, hi, f, d)) :
                hi \in 0..MaxTags, f \in BOOLEAN, d \in BOOLEAN}

\* Raw records that differ in their tag fields.
TagRaws ==
    {[BlankRaw EXCEPT !.iam_into_summary_popup = a,
                      !.iam_looking_for_tags_popup = b] :
        a \in {TagsNone, TagsNumber, TagsStr(0), TagsStr(1)}
                \cup {TagsList(TagRun(1, hi, f, FALSE)) :
                        hi \in 0..(MaxTags \div 2), f \in BOOLEAN},
        b \in {TagsNone, TagsNumber}
                \cup {TagsList(TagRun(lo, MaxTags, f, FALSE)) :
                        lo \in 1..(MaxTags + 1), f \in BOOLEAN}}
        \cup {[BlankRaw EXCEPT !.turns_me_on_tags_popup = c] : c \in TagFieldValues}

\* The photo directory at the time of the call: any of the files exist.
PhotoDirs == {[p \in S |-> RealSize] : S \in SUBSET PhotoFiles}

\* One call convert_to_user_model(zbeng_user_data), in a fresh process.
CallConvert ==
    /\ convertCall.kind = "none"
    /\ \E data \in PhotoRaws \cup GenderRaws \cup TagRaws,
          fs \in PhotoDirs,
          random \in [1..2 -> Privacies],
          order \in SetOrders :
        /\ (data \notin PhotoRaws) => (fs = EmptyFs /\ random = [i \in 1..2 |-> "public"])
        /\ (data \notin TagRaws) => order = "asc"
        /\ (Len(data.saved_popup_photo_files) < 2)
              => random = [i \in 1..2 |-> "public"]
        /\ convertCall' = [kind |-> "call", data |-> data, fs |-> fs,
                           result |-> UserModel(data, fs, random, order)]
    /\ UNCHANGED <<photoFs, mainVars, photoCall, photoCalls, detailCall, parseCall>>

NextConvert == CallConvert

SpecConvert == Init /\ [][NextConvert]_vars

\* ----------------------------------------------------- claims on SpecConvert
Converted == convertCall.kind = "call" /\ convertCall.result # NoneRec

\* Some file of the record resolved to an existing file.
AnyResolved ==
    \/ Resolved(convertCall.fs, convertCall.data.saved_listing_photo_file)
    \/ \E i \in DOMAIN convertCall.data.saved_popup_photo_files :
          Resolved(convertCall.fs, convertCall.data.saved_popup_photo_files[i])

\* C14: the photos array of a canonical record is never empty, and when
\* neither the listing photo nor any detail photo resolved to an existing
\* file it holds exactly the synthesized placeholder.
C14_PlaceholderWhenNoPhoto ==
    Converted
        => /\ Len(convertCall.result.photos) >= 1
           /\ ~AnyResolved => convertCall.result.photos = <<PlaceholderEntry>>

\* A record names a listing file and detail files, none of which exists, and
\* its photos array is the placeholder.
C14_Witness ==
    /\ Converted
    /\ convertCall.data.saved_listing_photo_file # NoneRec
    /\ convertCall.data.saved_popup_photo_files # <<>>
    /\ ~AnyResolved
    /\ convertCall.result.photos = <<PlaceholderEntry>>

\* Positions of the detail photos in a photos array.
DetailEntries(photos) == {i \in DOMAIN photos : ~photos[i].isProfile}

\* C15: the first detail photo included in the photos array has privacy
\* "public", and the listing photo, when resolved, is included with
\* isProfile true.
C15_FirstDetailPhotoPublic ==
    Converted
        => LET photos == convertCall.result.photos
               listing == convertCall.data.saved_listing_photo_file
           IN /\ \A i \in DetailEntries(photos) :
                    (\A j \in DetailEntries(photos) : i <= j)
                        => photos[i].privacy = "public"
              /\ Resolved(convertCall.fs, listing)
                    => \E i \in DOMAIN photos :
                          photos[i].file = listing /\ photos[i].isProfile

\* The directly supplied canonical gender of a raw record: gender_popup_en,
\* else gender_listing, else None.
SuppliedGender(data) ==
    IF Truthy(data.gender_popup_en) THEN data.gender_popup_en
    ELSE IF Truthy(data.gender_listing) THEN data.gender_listing
    ELSE None

\* C16: when gender_popup_he is absent or unrecognized and a canonical gender
\* field is supplied, the canonical gender is the supplied one; when the
\* derived gender is couple, isCouple is true and details.gender is "other".
C16_GenderFallback ==
    Converted
        => LET data == convertCall.data
               supplied == SuppliedGender(data)
               derived == IF GenderHe(data) \in {"bat", "ben", "zug"}
                          THEN hebrew_to_english_gender(GenderHe(data))
                          ELSE supplied
           IN /\ (GenderHe(data) \notin {"bat", "ben", "zug"} /\ supplied # None
                     /\ supplied # "couple")
                    => convertCall.result.gender = supplied
              /\ derived = "couple"
                    => (convertCall.result.isCouple
                          /\ convertCall.result.gender = "other")

NoRepeat(q) == Cardinality(SeqRange(q)) = Len(q)

\* C17: details.intoTags has at most 7 entries and details.turnOns at most
\* 6; neither holds an empty or null entry, neither holds a tag twice.
C17_TagListBounds ==
    Converted
        => /\ Len(convertCall.result.intoTags) <= 7
           /\ Len(convertCall.result.turnOns) <= 6
           /\ SeqRange(convertCall.result.intoTags) \cap Falsy = {}
           /\ SeqRange(convertCall.result.turnOns) \cap Falsy = {}
           /\ NoRepeat(convertCall.result.intoTags)
           /\ NoRepeat(convertCall.result.turnOns)

\* The two into-tag fields of a record hold more than 7 different tags, a
\* None, an empty string and a tag twice; intoTags was cut to 7.
C17_Witness ==
    /\ Converted
    /\ LET q == TagsAsList(convertCall.data.iam_into_summary_popup)
                    \o TagsAsList(convertCall.data.iam_looking_for_tags_popup)
       IN /\ Cardinality(SeqRange(q) \ Falsy) > 7
          /\ Falsy \subseteq SeqRange(q)
          /\ ~NoRepeat(q)
    /\ Len(convertCall.result.intoTags) = 7

\* Positions of the profile photos in a photos array.
ProfileEntries(photos) == {i \in DOMAIN photos : photos[i].isProfile}

\* C26: every canonical record returned by convert_to_user_model has exactly
\* one photo entry with isProfile true.
C26_ExactlyOneProfilePhoto ==
    Converted => Cardinality(ProfileEntries(convertCall.result.photos)) = 1

\* ------------------------------------------------ SpecParse: the parsers
\* Join the texts of a list with single spaces.
RECURSIVE JoinSpace(_)
JoinSpace(texts) ==
    IF texts = <<>> THEN <<>>
    ELSE IF Len(texts) = 1 THEN texts[1]
    ELSE texts[1] \o <<Space>> \o JoinSpace(Tail(texts))

\* Ages and places of the descriptors.
AgeTexts == {<<"7">>, <<"2", "0">>, <<"4", "5">>}
PlaceTexts == {<<"x">>, <<"x", "y">>, <<"x", " ", "y">>}

\* What a compact descriptor has before its first comma: a gender word with
\* an age (with and without white space), and texts that do not start so.
WellFormedPrefixes ==
    {w \o sp \o a : w \in {WordBat, WordBen, WordZug},
                    sp \in {<<>>, <<Space>>}, a \in AgeTexts}
MalformedPrefixes ==
    {<<>>, <<"x">>, <<"2", "0">>, WordBat, WordBen \o <<Space>>,
     <<"x", Space>> \o WordBat \o <<Space, "3", "2">>,
     WordZug \o <<Space, "x">>}

\* What follows it: nothing, or a comma and more text.
CompactTails ==
    {<<>>, <<Comma>>} \cup {<<Comma, Space>> \o p : p \in PlaceTexts}
        \cup {<<Comma>> \o p \o <<Comma>> \o p : p \in PlaceTexts}

CompactTexts ==
    {p \o t : p \in WellFormedPrefixes \cup MalformedPrefixes, t \in CompactTails}

\* The verbose descriptor "<marital> <gender> <age> m<location>".
Verbose(marital, gender, age, location) ==
    JoinSpace(<<marital, gender, age, <<FromMarker>> \o location>>)

\* One call parse_gender_age_location_simple(text).
CallParseSimple ==
    /\ parseCall.kind = "none"
    /\ \E text \in CompactTexts :
        parseCall' = [kind |-> "simple", text |-> text,
                      result |-> parse_gender_age_location_simple(text)]
    /\ UNCHANGED <<photoFs, mainVars, photoCall, photoCalls, detailCall, convertCall>>

\* One call parse_detailed_gender_age_location(text) on a verbose descriptor.
CallParseDetailed ==
    /\ parseCall.kind = "none"
    /\ \E k \in DOMAIN marital_options,
          gender \in {WordBen, WordBat, WordZug},
          age \in AgeTexts, location \in PlaceTexts :
        parseCall' = [kind |-> "detailed",
                      marital |-> marital_options[k], gender |-> gender,
                      age |-> age, location |-> location,
                      result |-> parse_detailed_gender_age_location(
                                    Verbose(marital_options[k], gender, age, location))]
    /\ UNCHANGED <<photoFs, mainVars, photoCall, photoCalls, detailCall, convertCall>>

\* The query parameters an image source may carry, and the sources: absent,
\* or up to two parameters in any order.
SrcParams ==
    {Param("customerId", c) : c \in CustomerIds \ {0}}
        \cup {Param("number", n) : n \in {1, 2}} \cup {Param("w", 1)}
ImgSrcs ==
    {NoSrc, Src(<<>>)} \cup {Src(<<a>>) : a \in SrcParams}
        \cup {Src(<<a, b>>) : a \in SrcParams, b \in SrcParams}

\* One container of parse_users_from_listing: its photo reference.
CallParseListing ==
    /\ parseCall.kind = "none"
    /\ \E src \in ImgSrcs, user_id \in Ids :
        parseCall' = [kind |-> "listing", src |-> src, user_id |-> user_id,
                      result |-> photo_url_listing(src, user_id)]
    /\ UNCHANGED <<photoFs, mainVars, photoCall, photoCalls, detailCall, convertCall>>

NextParse == CallParseSimple \/ CallParseDetailed \/ CallParseListing

SpecParse == Init /\ [][NextParse]_vars

\* ------------------------------------------------------- claims on SpecParse
\* The part of a text before its first comma starts with a gender word
\* followed by digits.
StartsWithGenderAndDigits(text) ==
    MatchAt(Strip(Split(text, Comma)[1]), 1, <<WordBat, WordBen, WordZug>>) # NoneRec

\* C18: for every text whose part before the first comma does not start with
\* a gender word followed by digits, parse_gender_age_location_simple
\* returns gender, age and location all absent, also when a comma and
\* further text follow.
C18_MalformedAllAbsent ==
    (parseCall.kind = "simple" /\ ~StartsWithGenderAndDigits(parseCall.text))
        => parseCall.result = Simple(NoneRec, NoneRec, NoneRec)

\* C19: parse_detailed_gender_age_location on "<marital> <gender> <age>
\* m<location>" returns that marital token, gender word, age and location.
C19_VerboseRoundTrip ==
    parseCall.kind = "detailed"
        => parseCall.result =
              Detailed(Some(parseCall.marital), Some(parseCall.gender),
                       Some(ParseInt(parseCall.age)), Some(parseCall.location))

\* How many times number= occurs in a reference.
RECURSIVE NumberCount(_)
NumberCount(url) ==
    IF url = <<>> THEN 0
    ELSE (IF Head(url)[1] = "number" THEN 1 ELSE 0) + NumberCount(Tail(url))

\* The reference was synthesized or completed: it is not the source as found.
Synthesized ==
    ~parseCall.src.present \/ parseCall.result # parseCall.src.params

\* C21: whenever parse_users_from_listing synthesizes or completes the photo
\* reference, photo_url_listing contains number= exactly once.
C21_NumberExactlyOnce ==
    (parseCall.kind = "listing" /\ Synthesized)
        => NumberCount(parseCall.result) = 1

====
